---- MODULE Spec2Model ----
(***************************************************************************)
(* A model of the gator region allocator (gator.go): the region tree, the  *)
(* address-range index with its three binary searches, Drop, and the       *)
(* checked pointer assignment.  Addresses and sizes are scaled down; the   *)
(* control flow of every function is the one of the source.                *)
(***************************************************************************)
EXTENDS Integers, Sequences, FiniteSets, TLC

\* ---- bounds ----------------------------------------------------------
\* Number of Region objects the caller ever allocates (ids double as the
\* order of their addresses: a lower id lies at a lower address).
MaxRegions == 3
\* Number of RegionTree objects.
NumTrees == 2
\* Cells per region payload (32256 in the source, scaled).
CellCount == 1
\* Bytes of header in front of each payload (4096 in the source, scaled).
RegionHeaderBytes == 2
\* Number of payload slots the caller lets hold a pointer at one time.
MaxPointers == 1

\* ---- program constants -----------------------------------------------
CellBytes == 8
FlagStaticRegion == 1
FlagHeapRegion == 2
FlagStackRegion == 3
FlagDroppedRegion == 4

RegionMemBytes == CellCount * CellBytes
RegionBytes == RegionHeaderBytes + RegionMemBytes

NIL == 0
Regions == 1..MaxRegions
Trees == 1..NumTrees

\* Zero value of RegionMeta (a Region that was never added to a tree).
ZeroMeta == [Tree |-> NIL, Up |-> NIL, Left |-> NIL, Right |-> NIL, Down |-> NIL, Flags |-> 0]
\* Zero value of Region.Mem.
ZeroMem == [i \in 1..RegionMemBytes |-> 0]

VARIABLES
  Root,     \* Root[t]: RegionTree.Root of tree t (NIL or a region)
  index,    \* index[t]: RegionTree.index of tree t, a sequence of indexedRegion
  meta,     \* meta[r]: Region.Header.Meta of region r
  Mem,      \* Mem[r]: Region.Mem of region r, a sequence of bytes
  dropped,  \* the regions on which Drop has returned nil
  ret       \* result of the last call

vars == <<Root, index, meta, Mem, dropped, ret>>

\* ---- addresses ---------------------------------------------------------
\* uintptr(unsafe.Pointer(&region.Mem[o])): regions lie at disjoint
\* addresses, each payload preceded by its header.
MemAddr(r, o) == (r - 1) * RegionBytes + RegionHeaderBytes + o
\* One address past the last region, used as the largest probe address.
MaxAddr == MaxRegions * RegionBytes
Addrs == 0..MaxAddr

\* ---- flags -------------------------------------------------------------
Static(f) == f = FlagStaticRegion
Heap(f) == f = FlagHeapRegion
Stack(f) == f = FlagStackRegion
Dropped(f) == f = FlagDroppedRegion
\* f | FlagDroppedRegion on the three-bit flag values the program produces.
OrDropped(f) == IF (f \div FlagDroppedRegion) % 2 = 1 THEN f ELSE f + FlagDroppedRegion

\* ---- ghost notions used by the properties ------------------------------
Created(r) == meta[r].Tree # NIL
Live(r) == Created(r) /\ r \notin dropped

\* ---- the address-range index -------------------------------------------
\* The loop of FindRegion: l, r are the 0-based bounds of the source.
RECURSIVE FindLoop(_, _, _, _)
FindLoop(idx, addr, l, r) ==
  IF l < r
  THEN LET m == (l + r) \div 2 IN
       IF idx[m + 1].max < addr
       THEN FindLoop(idx, addr, m + 1, r)
       ELSE FindLoop(idx, addr, l, m - 1)
  ELSE l

\* RegionTree.FindRegion on the index idx.
FindRegionIn(idx, addr) ==
  LET l == FindLoop(idx, addr, 0, Len(idx) - 1) IN
  IF l = Len(idx) \/ (l = 0 /\ idx[l + 1].min > addr)
  THEN NIL
  ELSE idx[l + 1].reg

FindRegion(t, addr) == FindRegionIn(index[t], addr)

\* The loop of indexAdd.
RECURSIVE AddLoop(_, _, _, _)
AddLoop(idx, min, l, r) ==
  IF l < r
  THEN LET m == (l + r) \div 2 IN
       IF idx[m + 1].min < min
       THEN AddLoop(idx, min, m + 1, r)
       ELSE AddLoop(idx, min, l, m - 1)
  ELSE l

\* RegionTree.indexAdd: the index after adding region.
indexAdd(idx, region) ==
  LET min == MemAddr(region, 0)
      max == min + RegionMemBytes - 1
      e == [min |-> min, max |-> max, reg |-> region]
  IN IF Len(idx) = 0
     THEN Append(idx, e)
     ELSE LET l == AddLoop(idx, min, 0, Len(idx)) IN
          IF l = Len(idx)
          THEN Append(idx, e)
          ELSE SubSeq(idx, 1, l) \o <<e>> \o SubSeq(idx, l + 1, Len(idx))

\* The loop of indexDrop.
RECURSIVE DropLoop(_, _, _, _)
DropLoop(idx, min, l, r) ==
  IF l < r
  THEN LET m == (l + r) \div 2 IN
       IF idx[m + 1].min < min
       THEN DropLoop(idx, min, m + 1, r)
       ELSE DropLoop(idx, min, l, m - 1)
  ELSE l

\* indexDrop panics (slice bounds out of range) on an empty index.
indexDropPanics(idx) == Len(idx) = 0

\* A faulty indexDrop: when the entry found is the last one, its region is
\* cleared but the index is not shortened.
indexDrop_NoTruncate(idx, region) ==
  LET min == MemAddr(region, 0)
      l == DropLoop(idx, min, 0, Len(idx) - 1)
  IN IF l # Len(idx) - 1
     THEN [i \in 1..(Len(idx) - 1) |-> IF i <= l THEN idx[i] ELSE idx[i + 1]]
     ELSE [idx EXCEPT ![Len(idx)].reg = NIL]

\* RegionTree.indexDrop: the index after dropping region (Len(idx) > 0).
indexDrop(idx, region) ==
  LET min == MemAddr(region, 0)
      l == DropLoop(idx, min, 0, Len(idx) - 1)
  IN IF l # Len(idx) - 1
     THEN [i \in 1..(Len(idx) - 1) |-> IF i <= l THEN idx[i] ELSE idx[i + 1]]
     ELSE SubSeq(idx, 1, Len(idx) - 1)

\* Region.Contains
Contains(r, addr) == MemAddr(r, 0) <= addr /\ addr <= MemAddr(r, 0) + RegionMemBytes - 1

\* ---- the assignment check ----------------------------------------------
\* The ancestor walk of CanAssignPointer, starting at up.
RECURSIVE UpWalk(_, _)
UpWalk(up, pointsToRegion) ==
  IF up = NIL THEN FALSE
  ELSE IF up = pointsToRegion THEN TRUE
  ELSE UpWalk(meta[up].Up, pointsToRegion)

CanAssignPointer(pointerRegion, pointsToRegion) ==
  IF meta[pointerRegion].Tree # meta[pointsToRegion].Tree THEN FALSE
  ELSE LET ptrFlags == meta[pointerRegion].Flags
           memFlags == meta[pointsToRegion].Flags
       IN IF Dropped(ptrFlags) \/ Dropped(memFlags) \/ (Stack(memFlags) /\ ~Stack(ptrFlags))
          THEN FALSE
          ELSE IF Static(memFlags) \/ pointerRegion = pointsToRegion THEN TRUE
          ELSE UpWalk(meta[pointerRegion].Up, pointsToRegion)

\* Byte i (0-based, little endian) of the machine word holding addr.
RECURSIVE WordByte(_, _)
WordByte(addr, i) == IF i = 0 THEN addr % 256 ELSE WordByte(addr \div 256, i - 1)

\* The CellBytes bytes of a pointer to addr as amd64 stores them.
PointerBytes(addr) == [i \in 1..CellBytes |-> WordByte(addr, i - 1)]

\* A faulty UnsafeAssignPointer: the pointer is stored most significant byte
\* first.
UnsafeAssignPointer_BigEndian(m, off, pointsTo) ==
  [i \in 1..Len(m) |->
     IF off < i /\ i <= off + CellBytes THEN WordByte(pointsTo, CellBytes - (i - off)) ELSE m[i]]

\* UnsafeAssignPointer: payload bytes m after storing a pointer to pointsTo
\* at byte offset off.
UnsafeAssignPointer(m, off, pointsTo) ==
  [i \in 1..Len(m) |->
     IF off < i /\ i <= off + CellBytes THEN WordByte(pointsTo, i - off - 1) ELSE m[i]]

\* The pointer-sized word at byte offset off of region r's payload.
WordAt(r, off) == SubSeq(Mem[r], off + 1, off + CellBytes)

\* ---- operations --------------------------------------------------------
Init ==
  /\ Root = [t \in Trees |-> NIL]
  /\ index = [t \in Trees |-> <<>>]
  /\ meta = [r \in Regions |-> ZeroMeta]
  /\ Mem = [r \in Regions |-> ZeroMem]
  /\ dropped = {}
  /\ ret = "none"

Running == ret # "panic"

\* A faulty AddRootRegion: the check of tree.Root is missing, so a second
\* root replaces the first.
NewRootRegion_NoCheck(t, root) ==
  /\ Running
  /\ ~Created(root)
  /\ meta' = [meta EXCEPT ![root] = [ZeroMeta EXCEPT !.Tree = t]]
  /\ Root' = [Root EXCEPT ![t] = root]
  /\ index' = [index EXCEPT ![t] = indexAdd(index[t], root)]
  /\ ret' = "ok"
  /\ UNCHANGED <<Mem, dropped>>

\* tree.NewRootRegion() -> AddRootRegion(root), root a freshly allocated Region.
NewRootRegion(t, root) ==
  /\ Running
  /\ ~Created(root)
  /\ IF Root[t] # NIL
     THEN /\ ret' = "ROOT_EXISTS"
          /\ UNCHANGED <<Root, index, meta, Mem, dropped>>
     ELSE /\ meta' = [meta EXCEPT ![root] = [ZeroMeta EXCEPT !.Tree = t]]
          /\ Root' = [Root EXCEPT ![t] = root]
          /\ index' = [index EXCEPT ![t] = indexAdd(index[t], root)]
          /\ ret' = "ok"
          /\ UNCHANGED <<Mem, dropped>>

\* The caller gives a freshly created root its category by writing the
\* exported field Header.Meta.Flags (AddRootRegion leaves it zero).
SetFlags(r, f) ==
  /\ Running
  /\ Created(r)
  /\ Root[meta[r].Tree] = r
  /\ meta[r].Flags = 0
  /\ meta[r].Down = NIL
  /\ meta' = [meta EXCEPT ![r].Flags = f]
  /\ ret' = "none"
  /\ UNCHANGED <<Root, index, Mem, dropped>>

\* What r.NewSubRegion() returns in the current state.
NewSubRegionResult(r) ==
  IF Dropped(meta[r].Flags) THEN "PARENT_DROPPED" ELSE "ok"

\* A faulty AddSubRegion: the new region gets the HEAP category instead of
\* its parent's flags.
NewSubRegion_HeapFlags(r, sub) ==
  /\ Running
  /\ Created(r)
  /\ ~Created(sub)
  /\ IF NewSubRegionResult(r) = "PARENT_DROPPED"
     THEN /\ ret' = "PARENT_DROPPED"
          /\ UNCHANGED <<Root, index, meta, Mem, dropped>>
     ELSE LET tree == meta[r].Tree
              down == meta[r].Down
              m1 == [meta EXCEPT ![sub] = [Tree |-> tree, Up |-> r, Left |-> NIL,
                                           Right |-> down, Down |-> NIL,
                                           Flags |-> FlagHeapRegion]]
              m2 == IF down # NIL THEN [m1 EXCEPT ![down].Left = sub] ELSE m1
              m3 == [m2 EXCEPT ![r].Down = sub]
          IN /\ meta' = m3
             /\ index' = [index EXCEPT ![tree] = indexAdd(index[tree], sub)]
             /\ ret' = "ok"
             /\ UNCHANGED <<Root, Mem, dropped>>

\* r.NewSubRegion() -> r.AddSubRegion(sub), sub a freshly allocated Region.
NewSubRegion(r, sub) ==
  /\ Running
  /\ Created(r)
  /\ ~Created(sub)
  /\ IF NewSubRegionResult(r) = "PARENT_DROPPED"
     THEN /\ ret' = "PARENT_DROPPED"
          /\ UNCHANGED <<Root, index, meta, Mem, dropped>>
     ELSE LET tree == meta[r].Tree
              down == meta[r].Down
              m1 == [meta EXCEPT ![sub] = [Tree |-> tree, Up |-> r, Left |-> NIL,
                                           Right |-> down, Down |-> NIL,
                                           Flags |-> meta[r].Flags]]
              m2 == IF down # NIL THEN [m1 EXCEPT ![down].Left = sub] ELSE m1
              m3 == [m2 EXCEPT ![r].Down = sub]
          IN /\ meta' = m3
             /\ index' = [index EXCEPT ![tree] = indexAdd(index[tree], sub)]
             /\ ret' = "ok"
             /\ UNCHANGED <<Root, Mem, dropped>>

\* The metadata after the link rewiring of a successful Drop of the non-root
\* region r (up # NIL).
DropUnlink(m, r) ==
  LET up == m[r].Up
      left == m[r].Left
      right == m[r].Right
      m1 == [m EXCEPT ![up].Down = right]
      m2 == IF left # NIL THEN [m1 EXCEPT ![left].Right = right] ELSE m1
      m3 == IF right # NIL THEN [m2 EXCEPT ![right].Left = left] ELSE m2
  IN m3

\* What r.Drop() returns in the current state.
DropResult(r) ==
  IF Dropped(meta[r].Flags) THEN "ALREADY_DROPPED"
  ELSE IF meta[r].Down # NIL THEN "HAS_CHILDREN"
  ELSE IF r # Root[meta[r].Tree] /\ meta[r].Up = NIL THEN "panic"
  ELSE IF indexDropPanics(index[meta[r].Tree]) THEN "panic"
  ELSE "ok"

\* A faulty Drop: the region is marked dropped before its children are
\* looked at, so a refusal with HAS_CHILDREN leaves the mark behind.
Drop_MarkFirst(r) ==
  /\ Running
  /\ Created(r)
  /\ LET tree == meta[r].Tree
         res == DropResult(r)
         m0 == [meta EXCEPT ![r].Flags = OrDropped(meta[r].Flags)]
         isRoot == r = Root[tree]
     IN /\ ret' = res
        /\ IF res = "ALREADY_DROPPED"
           THEN UNCHANGED <<Root, index, meta, Mem, dropped>>
           ELSE IF res = "HAS_CHILDREN"
           THEN meta' = m0 /\ UNCHANGED <<Root, index, Mem, dropped>>
           ELSE /\ meta' = IF isRoot \/ meta[r].Up = NIL THEN m0 ELSE DropUnlink(m0, r)
                /\ Root' = IF isRoot THEN [Root EXCEPT ![tree] = NIL] ELSE Root
                /\ index' = IF res = "ok"
                            THEN [index EXCEPT ![tree] = indexDrop(index[tree], r)]
                            ELSE index
                /\ dropped' = IF res = "ok" THEN dropped \cup {r} ELSE dropped
                /\ UNCHANGED Mem

\* r.Drop()
Drop(r) ==
  /\ Running
  /\ Created(r)
  /\ LET tree == meta[r].Tree
         res == DropResult(r)
         m0 == [meta EXCEPT ![r].Flags = OrDropped(meta[r].Flags)]
         isRoot == r = Root[tree]
     IN /\ ret' = res
        /\ IF res \in {"ALREADY_DROPPED", "HAS_CHILDREN"}
           THEN UNCHANGED <<Root, index, meta, Mem, dropped>>
           ELSE /\ meta' = IF isRoot \/ meta[r].Up = NIL THEN m0 ELSE DropUnlink(m0, r)
                /\ Root' = IF isRoot THEN [Root EXCEPT ![tree] = NIL] ELSE Root
                /\ index' = IF res = "ok"
                            THEN [index EXCEPT ![tree] = indexDrop(index[tree], r)]
                            ELSE index
                /\ dropped' = IF res = "ok" THEN dropped \cup {r} ELSE dropped
                /\ UNCHANGED Mem

\* Byte offsets the caller passes: a pointer slot that lies inside the
\* payload, and any byte of the payload it points to.
SrcOffsets == {o \in {0, RegionMemBytes - CellBytes} : o >= 0}
DstOffsets == {0, RegionMemBytes - 1}

\* A faulty AssignPointer: the write happens before the check.
AssignPointer_WriteFirst(pointerRegion, pointerMemOffset, pointsToRegion, pointsToMemOffset) ==
  /\ Running
  /\ Created(pointerRegion)
  /\ Created(pointsToRegion)
  /\ ret' = IF CanAssignPointer(pointerRegion, pointsToRegion) THEN "true" ELSE "false"
  /\ Mem' = [Mem EXCEPT ![pointerRegion] =
                UnsafeAssignPointer(Mem[pointerRegion], pointerMemOffset,
                                    MemAddr(pointsToRegion, pointsToMemOffset))]
  /\ UNCHANGED <<Root, index, meta, dropped>>

\* AssignPointer(pointerRegion, pointerMemOffset, pointsToRegion, pointsToMemOffset)
AssignPointer(pointerRegion, pointerMemOffset, pointsToRegion, pointsToMemOffset) ==
  /\ Running
  /\ Created(pointerRegion)
  /\ Created(pointsToRegion)
  /\ IF ~CanAssignPointer(pointerRegion, pointsToRegion)
     THEN /\ ret' = "false"
          /\ UNCHANGED <<Root, index, meta, Mem, dropped>>
     ELSE /\ ret' = "true"
          /\ Mem' = [Mem EXCEPT ![pointerRegion] =
                       UnsafeAssignPointer(Mem[pointerRegion], pointerMemOffset,
                                           MemAddr(pointsToRegion, pointsToMemOffset))]
          /\ UNCHANGED <<Root, index, meta, dropped>>

\* The caller uses the trees in the order of their numbers.
TreeInUse(t) == \E r \in Regions : meta[r].Tree = t
NextTree(t) == t = 1 \/ TreeInUse(t - 1)

\* The payload slots that hold something else than the zero word.
ZeroWord == [i \in 1..CellBytes |-> 0]
PointerSlots == {p \in Regions \X SrcOffsets : WordAt(p[1], p[2]) # ZeroWord}
\* The caller keeps at most MaxPointers slots in use.
PointerBudget(r, off) == Cardinality(PointerSlots \ {<<r, off>>}) < MaxPointers

Next ==
  \/ \E t \in Trees, r \in Regions : NextTree(t) /\ NewRootRegion(t, r)
  \/ \E r \in Regions, f \in {FlagStaticRegion, FlagHeapRegion, FlagStackRegion} : SetFlags(r, f)
  \/ \E r \in Regions, s \in Regions : NewSubRegion(r, s)
  \/ \E r \in Regions : Drop(r)
  \/ \E s \in Regions, so \in SrcOffsets :
        /\ PointerBudget(s, so)
        /\ \E d \in Regions, do \in DstOffsets : AssignPointer(s, so, d, do)

Spec == Init /\ [][Next]_vars

\* ---- notions the properties share --------------------------------------
\* a is a proper ancestor of r by parent links.
IsAncestor(a, r) == UpWalk(meta[r].Up, a)
\* r has a live child.
HasLiveChild(r) == \E c \in Regions : Live(c) /\ meta[c].Up = r
\* The live regions of tree t.
LiveIn(t) == {r \in Regions : Live(r) /\ meta[r].Tree = t}
\* Every byte offset of a payload.
MemOffsets == 0..(RegionMemBytes - 1)

\* ---- C1 ----------------------------------------------------------------
\* C1 (as claimed): every pointer word that AssignPointer stored in the
\* payload of a live region refers to the payload of a region that is still
\* live.  (Payloads start zeroed and AssignPointer is their only writer, so a
\* word that equals the address of a payload byte was stored by it.)
C1_NoDanglingPointers ==
  \A src \in Regions, so \in SrcOffsets, dst \in Regions, do \in MemOffsets :
    (Live(src) /\ Created(dst) /\ WordAt(src, so) = PointerBytes(MemAddr(dst, do)))
      => Live(dst)

\* ---- C2 ----------------------------------------------------------------
\* C2 (as claimed): Drop on a region with a live child fails with
\* HAS_CHILDREN, and no region is dropped while a region created under it is
\* still live.
C2_DropOrder ==
  /\ \A r \in Regions :
       (Live(r) /\ HasLiveChild(r)) => DropResult(r) = "HAS_CHILDREN"
  /\ \A r \in dropped, c \in Regions :
       (Live(c) /\ IsAncestor(r, c)) => FALSE

\* ---- C3 ----------------------------------------------------------------
\* The assignment rule as the claim states it.
AssignmentRule(src, dst) ==
  /\ meta[src].Tree = meta[dst].Tree
  /\ src \notin dropped /\ dst \notin dropped
  /\ Stack(meta[dst].Flags) => Stack(meta[src].Flags)
  /\ \/ Static(meta[dst].Flags)
     \/ src = dst
     \/ IsAncestor(dst, src)

\* C3 (as claimed): CanAssignPointer(src, dst) is true exactly when the
\* assignment rule holds of src and dst.
C3_AssignmentRule ==
  \A src \in Regions, dst \in Regions :
    (Created(src) /\ Created(dst)) => (CanAssignPointer(src, dst) <=> AssignmentRule(src, dst))

\* ---- C4 ----------------------------------------------------------------
\* C4 (as claimed): FindRegion returns R for every byte address inside the
\* payload of every live region R.
C4_LookupCorrectness ==
  \A r \in Regions, o \in MemOffsets :
    Live(r) => FindRegion(meta[r].Tree, MemAddr(r, o)) = r

\* ---- C5 ----------------------------------------------------------------
\* The entry the index holds for region r.
EntryOf(r) == [min |-> MemAddr(r, 0), max |-> MemAddr(r, 0) + RegionMemBytes - 1, reg |-> r]

\* C5 (as claimed): the index of a tree holds exactly one entry for each live
\* region of the tree, with the region's payload range, and no other entry.
C5_IndexMembership ==
  \A t \in Trees :
    /\ \A r \in LiveIn(t) :
         Cardinality({i \in 1..Len(index[t]) : index[t][i].reg = r}) = 1
    /\ \A i \in 1..Len(index[t]) :
         /\ index[t][i].reg \in LiveIn(t)
         /\ index[t][i] = EntryOf(index[t][i].reg)

\* ---- C6 ----------------------------------------------------------------
\* C6 (as claimed): the index entries are sorted strictly increasing by min
\* and no two ranges overlap.
C6_IndexOrder ==
  \A t \in Trees : \A i \in 1..Len(index[t]), j \in 1..Len(index[t]) :
    i < j => (index[t][i].min < index[t][j].min /\ index[t][i].max < index[t][j].min)

\* ---- C7 ----------------------------------------------------------------
\* C7 (as claimed): FindRegion returns nil for every address outside the
\* payload of every live region of the tree.
C7_LookupMiss ==
  \A t \in Trees, a \in Addrs :
    (\A r \in LiveIn(t) : ~Contains(r, a)) => FindRegion(t, a) = NIL

\* ---- C10 ---------------------------------------------------------------
\* C10 (as claimed): Drop succeeds on every live region that has no live
\* child.
C10_DropSucceeds ==
  \A r \in Regions :
    (Live(r) /\ ~HasLiveChild(r)) => DropResult(r) = "ok"

\* ---- C8 ----------------------------------------------------------------
\* AssignPointer is the only operation that returns a boolean: a step that
\* leaves ret = "true" is a call of it that returned true.
\* C8: whenever AssignPointer(src, so, dst, do) returns true, the
\* pointer-sized word at byte offset so of src's payload is, right after the
\* call, the machine address of byte do of dst's payload.
C8_WriteEffect ==
  [][ret' = "true" =>
       \A src \in Regions, dst \in Regions, so \in SrcOffsets, do \in DstOffsets :
         AssignPointer(src, so, dst, do)
           => WordAt(src, so)' = PointerBytes(MemAddr(dst, do))]_vars

\* AssignPointer has just returned true for a pointer from the last slot of a
\* region to the last byte of a proper ancestor, and the slot holds it.
C8_Witness ==
  /\ ret = "true"
  /\ \E src \in Regions, dst \in Regions :
       /\ IsAncestor(dst, src)
       /\ WordAt(src, RegionMemBytes - CellBytes)
            = PointerBytes(MemAddr(dst, RegionMemBytes - 1))

\* ---- C9 ----------------------------------------------------------------
\* Nothing but the pointer slot at byte offset so of src's payload changes
\* in any payload.
SlotFrame(src, so) ==
  /\ \A r \in Regions \ {src} : Mem'[r] = Mem[r]
  /\ Len(Mem'[src]) = Len(Mem[src])
  /\ \A i \in 1..RegionMemBytes :
       (i <= so \/ i > so + CellBytes) => Mem'[src][i] = Mem[src][i]

\* A call of AssignPointer that returns false changes nothing, and a call
\* returns true only when CanAssignPointer holds of its regions.
RefusedFrame ==
  /\ ret' = "false" => UNCHANGED <<Root, index, meta, Mem, dropped>>
  /\ ret' = "true" =>
       \A src \in Regions, dst \in Regions, so \in SrcOffsets, do \in DstOffsets :
         AssignPointer(src, so, dst, do) => CanAssignPointer(src, dst)

RECURSIVE RightWalk(_, _)
RightWalk(r, n) ==
  IF r = NIL \/ n = 0 THEN {} ELSE {r} \cup RightWalk(meta[r].Right, n - 1)

\* The child list of p: the sibling list that starts at p's first child.
ChildList(p) == RightWalk(meta[p].Down, MaxRegions)

\* The regions reached from the set S by Down and Right links in n rounds.
RECURSIVE LinkClosure(_, _)
LinkClosure(S, n) ==
  LET T == (S \cup {meta[r].Down : r \in S} \cup {meta[r].Right : r \in S}) \ {NIL} IN
  IF n = 0 \/ T = S THEN S ELSE LinkClosure(T, n - 1)

\* The regions reachable from the root of tree t by Down and Right links.
ReachableFromRoot(t) ==
  IF Root[t] = NIL THEN {} ELSE LinkClosure({Root[t]}, MaxRegions)

\* C11 (as claimed): a dropped region is not reachable from its tree's root
\* by first_child and next_sibling links, and is not on its former parent's
\* child list, in the state after the drop and in every later state.
C11_DroppedUnreachable ==
  \A r \in dropped :
    /\ r \notin ReachableFromRoot(meta[r].Tree)
    /\ meta[r].Up # NIL => r \notin ChildList(meta[r].Up)

\* ---- C12 ---------------------------------------------------------------
\* C12 (as claimed): once Drop has succeeded on a region, whatever its
\* category was, its flags report Dropped and every later operation on it
\* fails: Drop with ALREADY_DROPPED, NewSubRegion with PARENT_DROPPED, and
\* CanAssignPointer is false with it as source or as destination.
C12_DroppedTerminal ==
  \A r \in dropped :
    /\ Dropped(meta[r].Flags)
    /\ DropResult(r) = "ALREADY_DROPPED"
    /\ NewSubRegionResult(r) = "PARENT_DROPPED"
    /\ \A o \in Regions :
         Created(o) => (~CanAssignPointer(r, o) /\ ~CanAssignPointer(o, r))

\* ---- C13 ---------------------------------------------------------------
\* The error kinds of the structural operations.
ErrorKinds == {"ROOT_EXISTS", "PARENT_DROPPED", "ALREADY_DROPPED", "HAS_CHILDREN"}

\* C13: a structural operation that fails (NewRootRegion with ROOT_EXISTS,
\* NewSubRegion with PARENT_DROPPED, Drop with ALREADY_DROPPED or
\* HAS_CHILDREN) leaves the roots, every region's links and flags, every
\* payload and the indexes as they were before the call.
C13_FailureLeavesState ==
  [][ret' \in ErrorKinds => UNCHANGED <<Root, index, meta, Mem, dropped>>]_vars

\* Drop has just been refused with HAS_CHILDREN on a live region that has a
\* first child.
C13_Witness ==
  /\ ret = "HAS_CHILDREN"
  /\ \E r \in Regions : Live(r) /\ meta[r].Down # NIL /\ ~Dropped(meta[r].Flags)

\* ---- C14 ---------------------------------------------------------------
\* The regions of tree t that are roots: live and without a parent link.
RootsOf(t) == {r \in LiveIn(t) : meta[r].Up = NIL}

\* In every state a tree has at most one parentless live region, and a set
\* tree.Root names it.
C14_OneRootState ==
  \A t \in Trees :
    /\ Cardinality(RootsOf(t)) <= 1
    /\ Root[t] # NIL => Root[t] \in RootsOf(t)

\* A NewRootRegion step succeeds exactly when the root is unset, and then
\* installs the new region as the root; otherwise it returns ROOT_EXISTS.
C14_NewRootStep ==
  \A t \in Trees, r \in Regions :
    (ret' \in {"ok", "ROOT_EXISTS"} /\ NewRootRegion(t, r)) =>
      /\ (ret' = "ok") <=> (Root[t] = NIL)
      /\ (ret' = "ROOT_EXISTS") <=> (Root[t] # NIL)
      /\ ret' = "ok" => (Root'[t] = r /\ meta'[r].Up = NIL)

\* C14: NewRootRegion succeeds exactly when the tree's root is unset and
\* fails with ROOT_EXISTS otherwise; in every reachable state the tree has at
\* most one root and the root's parent link is unset; after the root has been
\* dropped a new root can be created again.
C14_AtMostOneRoot == []C14_OneRootState /\ [][C14_NewRootStep]_vars

\* A tree whose former root has been dropped has just been given a new root.
C14_Witness ==
  \E t \in Trees, old \in dropped :
    /\ meta[old].Tree = t
    /\ meta[old].Up = NIL
    /\ Root[t] \notin {NIL, old}
    /\ Live(Root[t])
    /\ index[t] # << >>
    /\ ret = "ok"

\* ---- C15 ---------------------------------------------------------------
\* Every live region carries exactly one of STATIC, HEAP, STACK.
C15_OneCategory ==
  \A r \in Regions :
    Live(r) =>
      Cardinality({f \in {FlagStaticRegion, FlagHeapRegion, FlagStackRegion} :
                     meta[r].Flags = f}) = 1

\* A successful NewRootRegion step leaves the new root with flag HEAP.
C15_NewRootHeap ==
  \A t \in Trees, r \in Regions :
    (ret' = "ok" /\ NewRootRegion(t, r)) => Heap(meta'[r].Flags)

\* C15: a root region created by NewRootRegion has flag HEAP, and every live
\* region carries exactly one of the categories STATIC, HEAP, STACK until it
\* is dropped.
C15_FlagCategory == []C15_OneCategory /\ [][C15_NewRootHeap]_vars

\* ---- C16 ---------------------------------------------------------------
\* What a successful NewSubRegion step on the live parent p gives the new
\* region s.
C16_NewSubStep ==
  \A p \in Regions, s \in Regions :
    (ret' = "ok" /\ Live(p) /\ NewSubRegion(p, s)) =>
      /\ meta'[s].Flags = meta[p].Flags
      /\ meta'[s].Flags = meta'[p].Flags
      /\ meta'[s].Tree = meta[p].Tree
      /\ meta'[s].Up = p

\* C16: flag inheritance. For every subregion S created by NewSubRegion on a
\* live parent P, S's flags at the moment of creation equal P's flags at that
\* moment, S's tree back-reference equals P's tree, and S's parent link is P.
C16_FlagInheritance == [][C16_NewSubStep]_vars

\* A subregion has just been created under a live parent that carries a
\* category.
C16_Witness ==
  /\ ret = "ok"
  /\ \E p \in Regions, s \in Regions :
       /\ Live(p) /\ Live(s)
       /\ meta[p].Down = s
       /\ meta[s].Up = p
       /\ meta[s].Down = NIL
       /\ meta[p].Flags \in {FlagStaticRegion, FlagHeapRegion, FlagStackRegion}
       /\ meta[s].Flags = meta[p].Flags

\* ---- C17 ---------------------------------------------------------------
\* The regions ever created in tree t.
CreatedIn(t) == {r \in Regions : meta[r].Tree = t}

\* C17: complete teardown. Once every region created in a tree has been
\* successfully dropped, the tree's root is unset and its index is empty.
C17_CompleteTeardown ==
  \A t \in Trees :
    (CreatedIn(t) # {} /\ CreatedIn(t) \subseteq dropped) =>
      (Root[t] = NIL /\ index[t] = << >>)

\* A tree that held a root and a subregion has been torn down completely.
C17_Witness ==
  \E t \in Trees :
    /\ Cardinality(CreatedIn(t)) >= 2
    /\ CreatedIn(t) \subseteq dropped
    /\ \E r \in CreatedIn(t) : meta[r].Up # NIL
    /\ ret = "ok"

\* ---- C18 ---------------------------------------------------------------
\* The live regions whose parent link names p.
LiveChildren(p) == {c \in Regions : Live(c) /\ meta[c].Up = p}

\* C18: sibling-list well-formedness. For every live parent P the child list
\* starting at P.Down is an acyclic doubly linked list (X.Right = Y iff
\* Y.Left = X for live children X, Y of P), P.Down is the most recently added
\* child of P that is still live (so it is a live child of P whenever P has
\* one), and P.Down has no left sibling.
C18_SiblingList ==
  \A p \in Regions :
    Live(p) =>
      /\ \A x \in LiveChildren(p), y \in LiveChildren(p) :
           (meta[x].Right = y) <=> (meta[y].Left = x)
      /\ \A x \in LiveChildren(p) : x \notin RightWalk(meta[x].Right, MaxRegions)
      /\ LiveChildren(p) # {} => meta[p].Down \in LiveChildren(p)
      /\ meta[p].Down # NIL => meta[meta[p].Down].Left = NIL

\* ---- C19 ---------------------------------------------------------------
\* C19: no region in the DROPPED state has its first-child link set: Down is
\* unset at the moment of the drop and no later operation on another region
\* sets it again.
C19_DroppedHasNoChild ==
  \A r \in Regions :
    (r \in dropped \/ Dropped(meta[r].Flags)) => meta[r].Down = NIL

\* ---- C20 ---------------------------------------------------------------
\* A non-root Drop step on r, whose parent's first child is another region,
\* leaves the parent's first child as it was.
C20_DropKeepsFirstChild ==
  \A r \in Regions :
    (ret' = "ok" /\ Live(r) /\ meta[r].Up # NIL /\ meta[meta[r].Up].Down # r /\ Drop(r))
      => meta'[meta[r].Up].Down = meta[meta[r].Up].Down

\* Every live region of a tree that has a root is reachable from the root by
\* Down and Right links, and every live child is in its live parent's list.
C20_LiveReachable ==
  /\ \A t \in Trees : Root[t] # NIL => LiveIn(t) \subseteq ReachableFromRoot(t)
  /\ \A p \in Regions : Live(p) => LiveChildren(p) \subseteq ChildList(p)

\* C20: dropping one region never detaches another live region. In every
\* reachable state every live region of the tree is reachable from the
\* tree's root by Down and Right links, i.e. every live child of P is in the
\* list that starts at P.Down; dropping a child that is not P's first child
\* leaves P.Down unchanged.
C20_NoDetach == []C20_LiveReachable /\ [][C20_DropKeepsFirstChild]_vars
====
